---- MODULE Spec2Model ----
(***************************************************************************)
(* DoorBird integration: config-entry lifecycle (async_setup_entry,        *)
(* async_unload_entry), the bridge from the device monitor's thread to the *)
(* event loop (handle_event / handle_error and the coroutines they hand    *)
(* off), and the domain data hass.data[DOMAIN].                            *)
(*                                                                         *)
(* The event loop is single threaded: a coroutine keeps the loop from one  *)
(* await to the next (variable running), and the other coroutines and the  *)
(* handed-off callbacks only advance when nobody holds it.  The monitor    *)
(* thread of a device runs concurrently with the loop at every step.       *)
(***************************************************************************)
EXTENDS Integers, Sequences, FiniteSets, TLC

\* ------------------------------------------------------------------ bounds
MaxDevices == 2
MaxEvents == 1
\* Callback invocations in the specification of the events' order.
MaxOrderEvents == 2

\* --------------------------------------------------------------- constants
UNAUTHORIZED == 401

\* Strings that the code composes or splits are sequences of characters.
\* DOMAIN of const.py (DOMAIN is a reserved word here).
DOORBIRD_DOMAIN == <<"d", "o", "o", "r", "b", "i", "r", "d">>
doorbell == <<"d", "o", "o", "r", "b", "e", "l", "l">>
motionsensor == <<"m", "o", "t", "i", "o", "n", "s", "e", "n", "s", "o", "r">>
EventNames == {doorbell, motionsensor}
ErrorMessages == {<<"e", "r", "r">>}

Entries == {"e1", "e2"}
Infos == {"infoA", "infoB"}
StatusCodes == {UNAUTHORIZED, 500}

\* entry.data.get(CONF_NAME): the optional display name of each entry.
CONF_NAME(e) == IF e = "e1" THEN "Front door" ELSE "None"

\* None where an entity id is expected; entity ids are sequences.
None == <<"None">>

NoDevice == [entry |-> "none", n |-> 0]
Devices == [entry : Entries, n : 1..MaxDevices]

\* What the executor job _init_doorbird_device can deliver: (status, info), or
\* one of the exceptions that device.ready() / device.info() raise.
HandshakeOutcomes ==
    [exc : {"none"}, status_code : {0}, ready : {TRUE}, info : Infos]
    \cup [exc : {"none"}, status_code : {0}, ready : {FALSE}, info : {"infoA"}]
    \cup [exc : {"HTTPError"}, status_code : StatusCodes, ready : {FALSE}, info : {"none"}]
    \cup [exc : {"OSError"}, status_code : {0}, ready : {FALSE}, info : {"none"}]
NoOutcome == [exc |-> "none", status_code |-> 0, ready |-> FALSE, info |-> "none"]

VARIABLES
    registry,        \* hass.data[DOMAIN], the part keyed by config entry id
    indexCreated,    \* DOOR_STATION_EVENT_ENTITY_IDS in hass.data[DOMAIN]
    index,           \* hass.data[DOMAIN][DOOR_STATION_EVENT_ENTITY_IDS]
    pc,              \* per entry: where its setup / unload coroutine stands
    running,         \* the entry whose coroutine holds the event loop, or "none"
    op,              \* per entry: the last call made for it
    result,          \* per entry: how that call ended
    state,           \* per entry: the host's config entry state
    device,          \* per entry: local `device` of its setup call
    hs,              \* per entry: what the handshake of its setup call delivered
    monitoring,      \* devices whose monitor thread is running
    loopQueue,       \* callbacks handed off to the loop, not yet run
    bus,             \* hass.bus: the events fired, in order
    logged,          \* seq numbers of the error callbacks _LOGGER.error was called for
    unawaited,       \* coroutine objects that were created and never awaited
    failed,          \* seq numbers of the handed-off coroutines that raised
    attempts,        \* per entry: how many DoorBird objects its setups have built
    nextSeq,         \* number of the next callback invocation
    atCall,          \* per entry: the record its running unload call looked up
    removed,         \* devices whose RegistryEntry has been popped
    returned,        \* devices for which an unload call has returned
    late,            \* handed-off callbacks run after unload returned for their device
    described        \* the last call of the logbook describer: its event, the index it read, its result

vars == <<registry, indexCreated, index, pc, running, op, result, state, device,
          hs, monitoring, loopQueue, bus, logged, unawaited, failed, attempts, nextSeq,
          atCall, removed, returned, late, described>>

NoRecord == [DOOR_STATION |-> [device |-> NoDevice, name |-> "None"],
             DOOR_STATION_INFO |-> "none"]

Init ==
    /\ registry = [e \in {} |-> NoRecord]
    /\ indexCreated = FALSE
    /\ index = [ev \in {} |-> None]
    /\ pc = [e \in Entries |-> "idle"]
    /\ running = "none"
    /\ op = [e \in Entries |-> "none"]
    /\ result = [e \in Entries |-> "none"]
    /\ state = [e \in Entries |-> "not_loaded"]
    /\ device = [e \in Entries |-> NoDevice]
    /\ hs = [e \in Entries |-> NoOutcome]
    /\ monitoring = {}
    /\ loopQueue = <<>>
    /\ bus = <<>>
    /\ logged = {}
    /\ unawaited = {}
    /\ failed = {}
    /\ attempts = [e \in Entries |-> 0]
    /\ nextSeq = 1
    /\ atCall = [e \in Entries |-> NoRecord]
    /\ removed = {}
    /\ returned = {}
    /\ late = {}
    /\ described = <<>>

\* ------------------------------------------------------------- dict helpers
\* d[k] = v
Put(d, k, v) == [x \in (DOMAIN d) \cup {k} |-> IF x = k THEN v ELSE d[x]]
\* d.pop(k)
Pop(d, k) == [x \in (DOMAIN d) \ {k} |-> d[x]]
\* d.get(k), None when absent
Get(d, k) == IF k \in DOMAIN d THEN d[k] ELSE None

\* ------------------------------------------------------- ConfiguredDoorBird
ConfiguredDoorBird(dev, name) == [device |-> dev, name |-> name]

\* The four URL attributes of the DoorBird client, one value per device.
DeviceUrl(dev, attr) == <<attr, dev.n>>

get_event_data(doorstation) ==
    [timestamp |-> "utcnow().isoformat()",
     live_video_url |-> DeviceUrl(doorstation.device, "live_video_url"),
     live_image_url |-> DeviceUrl(doorstation.device, "live_image_url"),
     rtsp_live_video_url |-> DeviceUrl(doorstation.device, "rtsp_live_video_url"),
     html5_viewer_url |-> DeviceUrl(doorstation.device, "html5_viewer_url")]

\* ------------------------------------------------------------ host (spec)
\* The host sets an entry up only when it is not loaded, and runs one call per
\* entry at a time.
CanSetup(e) == state[e] \in {"not_loaded", "setup_error", "setup_retry"}

StateAfterSetup(res) ==
    CASE res = "True" -> "loaded"
      [] res = "False" -> "setup_error"
      [] OTHER -> "setup_retry"

StateAfterUnload(old, res) ==
    CASE res = "True" -> "not_loaded"
      [] res = "False" -> "failed_unload"
      [] OTHER -> old

\* ------------------------------------------------------- async_setup_entry
\* The DoorBird objects built so far for the entries of S.
RECURSIVE Built(_)
Built(S) ==
    IF S = {} THEN 0
    ELSE LET e == CHOOSE x \in S : TRUE IN attempts[e] + Built(S \ {e})

\* A variant that takes every HTTP error for a retryable one.
ClassifyHandshake_NoAuthCheck(o) ==
    IF o.exc \in {"HTTPError", "OSError"}
    THEN "ConfigEntryNotReady"
    ELSE IF ~o.ready THEN "ConfigEntryNotReady" ELSE "proceed"

\* A variant that never looks at the readiness status.
ClassifyHandshake_IgnoresStatus(o) ==
    IF o.exc = "HTTPError"
    THEN IF o.status_code = UNAUTHORIZED THEN "False" ELSE "ConfigEntryNotReady"
    ELSE IF o.exc = "OSError" THEN "ConfigEntryNotReady" ELSE "proceed"

\* Lines 76-96: how the handshake's outcome ends the call, or lets it go on.
ClassifyHandshake(o) ==
    IF o.exc = "HTTPError"
    THEN IF o.status_code = UNAUTHORIZED THEN "False" ELSE "ConfigEntryNotReady"
    ELSE IF o.exc = "OSError"
    THEN "ConfigEntryNotReady"
    ELSE IF ~o.ready THEN "ConfigEntryNotReady" ELSE "proceed"

\* A variant that builds the door station without the configured name.
RegistryEntry_NoName(e) ==
    [DOOR_STATION |-> ConfiguredDoorBird(device[e], "None"),
     DOOR_STATION_INFO |-> hs[e].info]

\* Lines 123-126: the record stored under the config entry id.
RegistryEntry(e) ==
    [DOOR_STATION |-> ConfiguredDoorBird(device[e], CONF_NAME(e)),
     DOOR_STATION_INFO |-> hs[e].info]

\* Lines 63-77: build the client, hand the handshake to the executor, await it.
SetupStart(e) ==
    /\ running = "none"
    /\ pc[e] = "idle"
    /\ CanSetup(e)
    /\ Built(Entries) < MaxDevices
    /\ device' = [device EXCEPT ![e] = [entry |-> e, n |-> attempts[e] + 1]]
    /\ attempts' = [attempts EXCEPT ![e] = attempts[e] + 1]
    /\ op' = [op EXCEPT ![e] = "setup"]
    /\ result' = [result EXCEPT ![e] = "pending"]
    /\ pc' = [pc EXCEPT ![e] = "handshake"]
    /\ UNCHANGED <<registry, indexCreated, index, running, state, hs, monitoring,
                   loopQueue, bus, logged, unawaited, failed, nextSeq, atCall,
                   removed, returned, late, described>>

\* Line 77: the executor job is done and the coroutine resumes with what it
\* delivered: (status, info), or the exception raised.
SetupHandshake(e, o) ==
    /\ running = "none"
    /\ pc[e] = "handshake"
    /\ hs' = [hs EXCEPT ![e] = o]
    /\ pc' = [pc EXCEPT ![e] = "classify"]
    /\ running' = e
    /\ UNCHANGED <<registry, indexCreated, index, op, result, state, device,
                   monitoring, loopQueue, bus, logged, unawaited, failed, attempts, nextSeq,
                   atCall, removed, returned, late, described>>

\* Lines 78-96: return False, raise ConfigEntryNotReady, or go on to line 98.
SetupClassify(e) ==
    /\ running = e
    /\ pc[e] = "classify"
    /\ IF ClassifyHandshake(hs[e]) = "proceed"
       THEN /\ pc' = [pc EXCEPT ![e] = "start_monitoring"]
            /\ UNCHANGED <<running, result, state, hs>>
       ELSE /\ pc' = [pc EXCEPT ![e] = "idle"]
            /\ running' = "none"
            /\ result' = [result EXCEPT ![e] = ClassifyHandshake(hs[e])]
            /\ state' = [state EXCEPT ![e] = StateAfterSetup(ClassifyHandshake(hs[e]))]
            /\ hs' = [hs EXCEPT ![e] = NoOutcome]
    /\ UNCHANGED <<registry, indexCreated, index, op, device, monitoring,
                   loopQueue, bus, logged, unawaited, failed, attempts, nextSeq, atCall,
                   removed, returned, late, described>>

\* A variant in which the monitor is not started.
StartMonitoring_Skipped(dev) == monitoring

\* Line 121: the monitors running once start_monitoring() of dev has been called.
StartMonitoring(dev) == monitoring \cup {dev}

\* A variant in which the coroutine awaits between lines 121 and 123.
AfterStartMonitoring_Yields(e) == "none"

\* Lines 121-123: no await between start_monitoring() and the store of the
\* record: the coroutine of e keeps the loop.
AfterStartMonitoring(e) == e

\* Lines 98-121: device.start_monitoring(handle_event, handle_error).
SetupStartMonitoring(e) ==
    /\ running = e
    /\ pc[e] = "start_monitoring"
    /\ monitoring' = StartMonitoring(device[e])
    /\ pc' = [pc EXCEPT ![e] = "register"]
    /\ running' = AfterStartMonitoring(e)
    /\ UNCHANGED <<registry, indexCreated, index, op, result, state,
                   device, hs, loopQueue, bus, logged, unawaited, failed, attempts, nextSeq,
                   atCall, removed, returned, late, described>>

\* Lines 123-128: store the record, call async_forward_entry_setups, await it.
SetupRegister(e) ==
    /\ running = e
    /\ pc[e] = "register"
    /\ registry' = Put(registry, e, RegistryEntry(e))
    /\ pc' = [pc EXCEPT ![e] = "forward"]
    /\ running' = "none"
    /\ UNCHANGED <<indexCreated, index, op, result, state, device, hs,
                   monitoring, loopQueue, bus, logged, unawaited, failed, attempts, nextSeq,
                   atCall, removed, returned, late, described>>

\* Sub-entity platforms (camera): each entity writes its entity id into
\* DOOR_STATION_EVENT_ENTITY_IDS, creating the index on first use, for the
\* events of its door station.
PlatformEvents(e) == IF e = "e1" THEN {doorbell} ELSE {motionsensor}
EntityId(e) == <<"camera", e>>
PlatformIndex(e) ==
    [ev \in (DOMAIN index) \cup PlatformEvents(e) |->
        IF ev \in PlatformEvents(e) THEN EntityId(e) ELSE index[ev]]

\* Lines 128-130: async_forward_entry_setups is done; return True.
SetupForwarded(e) ==
    /\ running = "none"
    /\ pc[e] = "forward"
    /\ indexCreated' = TRUE
    /\ index' = PlatformIndex(e)
    /\ pc' = [pc EXCEPT ![e] = "idle"]
    /\ result' = [result EXCEPT ![e] = "True"]
    /\ state' = [state EXCEPT ![e] = StateAfterSetup("True")]
    /\ hs' = [hs EXCEPT ![e] = NoOutcome]
    /\ UNCHANGED <<registry, running, op, device, monitoring, loopQueue,
                   bus, logged, unawaited, failed, attempts, nextSeq, atCall, removed, returned, late, described>>

\* ------------------------------------------------------ async_unload_entry
\* A variant in which the monitor is not stopped.
StopMonitoring_Skipped(dev) == monitoring

\* Line 140: the monitors left running once stop_monitoring() of dev is done.
StopMonitoring(dev) == monitoring \ {dev}

\* A variant that pops the record whatever the platforms report.
UnloadRegistry_Always(e, unload_ok) == Pop(registry, e)

\* Lines 143-144: pop the record only if the platforms unloaded.
UnloadRegistry(e, unload_ok) == IF unload_ok THEN Pop(registry, e) ELSE registry

\* A variant that reports success whatever the platforms report.
UnloadReturn_AlwaysTrue(unload_ok) == "True"

\* Line 146: the value returned.
UnloadReturn(unload_ok) == IF unload_ok THEN "True" ELSE "False"

\* Lines 137-140: look the door station up and call stop_monitoring(); the
\* lookup raises KeyError when the entry has no record.
UnloadStart(e) ==
    /\ running = "none"
    /\ pc[e] = "idle"
    /\ op' = [op EXCEPT ![e] = "unload"]
    /\ atCall' = [atCall EXCEPT ![e] = IF e \in DOMAIN registry THEN registry[e] ELSE NoRecord]
    /\ IF e \in DOMAIN registry
       THEN /\ pc' = [pc EXCEPT ![e] = "stop_monitoring"]
            /\ result' = [result EXCEPT ![e] = "pending"]
            /\ UNCHANGED state
       ELSE /\ pc' = pc
            /\ result' = [result EXCEPT ![e] = "KeyError"]
            /\ state' = [state EXCEPT ![e] = StateAfterUnload(state[e], "KeyError")]
    /\ UNCHANGED <<registry, indexCreated, index, running, device, hs,
                   monitoring, loopQueue, bus, logged, unawaited, failed, attempts, nextSeq,
                   removed, returned, late, described>>

\* Lines 140-142: stop_monitoring() is done; call async_unload_platforms and
\* await it.
UnloadStopped(e) ==
    /\ running = "none"
    /\ pc[e] = "stop_monitoring"
    /\ monitoring' = StopMonitoring(atCall[e].DOOR_STATION.device)
    /\ pc' = [pc EXCEPT ![e] = "unload_platforms"]
    /\ UNCHANGED <<registry, indexCreated, index, running, op, result, state,
                   device, hs, loopQueue, bus, logged, unawaited, failed, attempts, nextSeq,
                   atCall, removed, returned, late, described>>

\* Lines 142-146: the platforms report unload_ok; pop the record or not; return.
UnloadFinish(e, unload_ok) ==
    /\ running = "none"
    /\ pc[e] = "unload_platforms"
    /\ registry' = UnloadRegistry(e, unload_ok)
    /\ removed' = IF e \in DOMAIN registry /\ e \notin DOMAIN registry'
                  THEN removed \cup {registry[e].DOOR_STATION.device}
                  ELSE removed
    /\ returned' = returned \cup {atCall[e].DOOR_STATION.device}
    /\ pc' = [pc EXCEPT ![e] = "idle"]
    /\ result' = [result EXCEPT ![e] = UnloadReturn(unload_ok)]
    /\ state' = [state EXCEPT ![e] = StateAfterUnload(state[e], UnloadReturn(unload_ok))]
    /\ atCall' = [atCall EXCEPT ![e] = NoRecord]
    /\ UNCHANGED <<indexCreated, index, running, op, device, hs, monitoring,
                   loopQueue, bus, logged, unawaited, failed, attempts, nextSeq, late, described>>

\* ------------------------------------------------------------ monitor thread
\* The coroutine object a callback builds: async_notify_event(event) or
\* async_handle_error(error), with the door station of its closure.
Handoff(kind, dev, arg) ==
    [kind |-> kind, device |-> dev, arg |-> arg, seq |-> nextSeq]

\* A variant that puts the coroutine ahead of the ones already handed off.
run_coroutine_threadsafe_First(t) == <<t>> \o loopQueue

\* Lines 110, 118: asyncio.run_coroutine_threadsafe(coroutine, hass.loop): the
\* loop runs what it is handed in the order it is handed it.
run_coroutine_threadsafe(t) == Append(loopQueue, t)

\* Line 107: the event type fired for an event name.
EventType(event) == DOORBIRD_DOMAIN \o <<"_">> \o event

\* Lines 103-106: the event data, with the entity id of the index.
EventData(doorstation, event) ==
    [payload |-> get_event_data(doorstation), entity_id |-> Get(index, event)]

\* A variant that fires the bus event from the monitor's thread.
handle_event_OnThread(dev, event) ==
    /\ dev \in monitoring
    /\ indexCreated
    /\ bus' = Append(bus, [event_type |-> EventType(event),
                            data |-> EventData(ConfiguredDoorBird(dev, CONF_NAME(dev.entry)), event),
                            seq |-> nextSeq])
    /\ nextSeq' = nextSeq + 1
    /\ UNCHANGED <<registry, indexCreated, index, pc, running, op, result,
                   state, device, hs, monitoring, loopQueue, logged, unawaited,
                   failed, attempts, atCall, removed, returned, late, described>>

\* Lines 109-110: handle_event, on the monitor's thread.
handle_event(dev, event) ==
    /\ dev \in monitoring
    /\ loopQueue' = run_coroutine_threadsafe(Handoff("event", dev, event))
    /\ nextSeq' = nextSeq + 1
    /\ UNCHANGED <<registry, indexCreated, index, pc, running, op, result,
                   state, device, hs, monitoring, bus, logged, unawaited, failed, attempts,
                   atCall, removed, returned, late, described>>

\* Lines 116-118: handle_error, on the monitor's thread.
handle_error(dev, error) ==
    /\ dev \in monitoring
    /\ loopQueue' = run_coroutine_threadsafe(Handoff("error", dev, error))
    /\ nextSeq' = nextSeq + 1
    /\ UNCHANGED <<registry, indexCreated, index, pc, running, op, result,
                   state, device, hs, monitoring, bus, logged, unawaited, failed, attempts,
                   atCall, removed, returned, late, described>>

\* ---------------------------------------------------------------- event loop
\* Lines 101-107: async_notify_event, on the loop.  Reading the index raises
\* KeyError while no platform has created it; the coroutine then ends there.
async_notify_event(t) ==
    /\ IF indexCreated
       THEN /\ bus' = Append(bus, [event_type |-> EventType(t.arg),
                                   data |-> EventData(ConfiguredDoorBird(t.device, CONF_NAME(t.device.entry)), t.arg),
                                   seq |-> t.seq])
            /\ UNCHANGED failed
       ELSE /\ failed' = failed \cup {t.seq}
            /\ UNCHANGED bus
    /\ UNCHANGED <<registry, logged, unawaited, state, pc, op, result, device, hs,
                   monitoring, attempts, atCall, removed, returned>>

\* A variant in which the reload runs to the point where setup has stored the
\* entry's record again.
async_handle_error_Reloads(t) ==
    /\ logged' = logged \cup {t.seq}
    /\ UNCHANGED unawaited
    /\ registry' = Put(registry, t.device.entry,
                       [DOOR_STATION |-> ConfiguredDoorBird(t.device, CONF_NAME(t.device.entry)),
                        DOOR_STATION_INFO |-> "infoA"])
    /\ UNCHANGED <<bus, failed, state, pc, op, result, device, hs, monitoring,
                   attempts, atCall, removed, returned>>

\* Line 114: what the call hass.config_entries.async_reload(entry_id) yields:
\* a coroutine object, of which nothing runs until it is awaited or scheduled.
async_reload(entry_id) == [coroutine |-> "async_reload", entry_id |-> entry_id]

\* Lines 112-114: async_handle_error, on the loop.  async_reload(entry_id) is
\* called and not awaited: the coroutine object it returns is dropped, and
\* nothing of the reload runs.
async_handle_error(t) ==
    /\ logged' = logged \cup {t.seq}
    /\ unawaited' = unawaited \cup {async_reload(t.device.entry)}
    /\ UNCHANGED <<registry, bus, failed, state, pc, op, result, device, hs,
                   monitoring, attempts, atCall, removed, returned>>

\* The loop runs the oldest handed-off coroutine.
LoopRunTask ==
    /\ running = "none"
    /\ loopQueue # <<>>
    /\ LET t == Head(loopQueue) IN
        /\ IF t.kind = "event" THEN async_notify_event(t) ELSE async_handle_error(t)
        /\ late' = IF t.device \in returned THEN late \cup {t} ELSE late
    /\ loopQueue' = Tail(loopQueue)
    /\ UNCHANGED <<indexCreated, index, running, nextSeq, described>>

\* ----------------------------------------------------------------- logbook
\* str.split(sep, 1): the list of the parts before and after the first sep,
\* or the whole string alone when it holds no sep.
split(str, sep) ==
    IF \E i \in 1..Len(str) : str[i] = sep
    THEN LET first == CHOOSE i \in 1..Len(str) :
                        str[i] = sep /\ \A j \in 1..(i - 1) : str[j] # sep
         IN <<SubSeq(str, 1, first - 1), SubSeq(str, first + 1, Len(str))>>
    ELSE <<str>>

\* What a call of the describer yields: the dict it returns, or the exception
\* it raises.
Raised(exc) == [raised |-> exc, name |-> "None", message |-> <<>>, entity_id |-> None]

\* A variant that finds no index where none was created.
async_describe_logbook_event_Lenient(event) ==
    LET parts == split(event.event_type, "_") IN
    IF Len(parts) < 2 THEN Raised("IndexError")
    ELSE [raised |-> "none",
          name |-> "Doorbird",
          message |-> <<"Event ">> \o event.event_type \o <<" was fired">>,
          entity_id |-> IF parts[2] \in DOMAIN index
                        THEN index[parts[2]]
                        ELSE event.data.entity_id]

\* Lines 20-30: async_describe_logbook_event.  The subscript
\* hass.data[DOMAIN][DOOR_STATION_EVENT_ENTITY_IDS] raises KeyError while no
\* platform has created the index.
async_describe_logbook_event(event) ==
    LET parts == split(event.event_type, "_") IN
    IF Len(parts) < 2 THEN Raised("IndexError")
    ELSE IF ~indexCreated THEN Raised("KeyError")
    ELSE [raised |-> "none",
          name |-> "Doorbird",
          message |-> <<"Event ">> \o event.event_type \o <<" was fired">>,
          entity_id |-> IF parts[2] \in DOMAIN index
                        THEN index[parts[2]]
                        ELSE event.data.entity_id]

\* Lines 32-35: the event types the describer is registered for, with the
\* entity id the event data may carry (None when the event was unmapped).
LogbookEvents ==
    [event_type : {EventType(ev) : ev \in EventNames},
     data : [entity_id : {None} \cup {EntityId(e) : e \in Entries}]]

\* The logbook calls the describer for a stored event of this domain.
LogbookDescribe(event) ==
    /\ running = "none"
    /\ described' = <<[event |-> event,
                       indexCreated |-> indexCreated,
                       index |-> index,
                       result |-> async_describe_logbook_event(event)]>>
    /\ UNCHANGED <<registry, indexCreated, index, pc, running, op, result,
                   state, device, hs, monitoring, loopQueue, bus, logged,
                   unawaited, failed, attempts, nextSeq, atCall, removed,
                   returned, late>>

\* ------------------------------------------------------------ specification
Next ==
    \/ \E e \in Entries : SetupStart(e)
    \/ \E e \in Entries, o \in HandshakeOutcomes : SetupHandshake(e, o)
    \/ \E e \in Entries : SetupClassify(e)
    \/ \E e \in Entries : SetupStartMonitoring(e)
    \/ \E e \in Entries : SetupRegister(e)
    \/ \E e \in Entries : SetupForwarded(e)
    \/ \E e \in Entries : UnloadStart(e)
    \/ \E e \in Entries : UnloadStopped(e)
    \/ \E e \in Entries, unload_ok \in BOOLEAN : UnloadFinish(e, unload_ok)
    \/ \E dev \in monitoring, event \in EventNames :
        nextSeq <= MaxEvents /\ handle_event(dev, event)
    \/ \E dev \in monitoring, error \in ErrorMessages :
        nextSeq <= MaxEvents /\ handle_error(dev, error)
    \/ LoopRunTask

Spec == Init /\ [][Next]_vars

FairSpec ==
    /\ Spec
    /\ WF_vars(LoopRunTask)
    /\ \A e \in Entries :
        /\ WF_vars(\E o \in HandshakeOutcomes : SetupHandshake(e, o))
        /\ WF_vars(SetupClassify(e))
        /\ WF_vars(SetupStartMonitoring(e))
        /\ WF_vars(SetupRegister(e))
        /\ WF_vars(SetupForwarded(e))
        /\ WF_vars(UnloadStopped(e))
        /\ WF_vars(\E unload_ok \in BOOLEAN : UnloadFinish(e, unload_ok))

\* The logbook renders stored events while entries are set up and unloaded.
\* The monitors' callbacks are left out: they change nothing the describer
\* reads.
LogbookNext ==
    \/ \E e \in Entries : SetupStart(e)
    \/ \E e \in Entries, o \in HandshakeOutcomes : SetupHandshake(e, o)
    \/ \E e \in Entries : SetupClassify(e)
    \/ \E e \in Entries : SetupStartMonitoring(e)
    \/ \E e \in Entries : SetupRegister(e)
    \/ \E e \in Entries : SetupForwarded(e)
    \/ \E e \in Entries : UnloadStart(e)
    \/ \E e \in Entries : UnloadStopped(e)
    \/ \E e \in Entries, unload_ok \in BOOLEAN : UnloadFinish(e, unload_ok)
    \/ \E event \in LogbookEvents : LogbookDescribe(event)

LogbookSpec == Init /\ [][LogbookNext]_vars

\* One entry, whose monitor may invoke the callbacks MaxOrderEvents times.
OrderNext ==
    \/ SetupStart("e1")
    \/ \E o \in HandshakeOutcomes : SetupHandshake("e1", o)
    \/ SetupClassify("e1")
    \/ SetupStartMonitoring("e1")
    \/ SetupRegister("e1")
    \/ SetupForwarded("e1")
    \/ UnloadStart("e1")
    \/ UnloadStopped("e1")
    \/ \E unload_ok \in BOOLEAN : UnloadFinish("e1", unload_ok)
    \/ \E dev \in monitoring, event \in EventNames :
        nextSeq <= MaxOrderEvents /\ handle_event(dev, event)
    \/ \E dev \in monitoring, error \in ErrorMessages :
        nextSeq <= MaxOrderEvents /\ handle_error(dev, error)
    \/ LoopRunTask

OrderSpec == Init /\ [][OrderNext]_vars

\* ------------------------------------------------------------------ claims
\* The step in which the setup call of e ends (returns or raises).
SetupEnds(e) == op[e] = "setup" /\ pc[e] # "idle" /\ pc'[e] = "idle"

HandshakeOk(o) == o.exc = "none" /\ o.ready
HandshakeUnauthorized(o) == o.exc = "HTTPError" /\ o.status_code = UNAUTHORIZED
HandshakeOtherFailure(o) ==
    \/ o.exc = "OSError"
    \/ o.exc = "HTTPError" /\ o.status_code # UNAUTHORIZED
    \/ o.exc = "none" /\ ~o.ready

\* C1: a setup call whose handshake succeeded (no exception, ready) ends by
\* returning True, and the registry then holds, under the entry's id, the
\* ConfiguredDoorBird built from the handshaken client and the configured name,
\* and the info the handshake delivered.
C1_SetupSuccessRegisters ==
    [][\A e \in Entries :
        (SetupEnds(e) /\ HandshakeOk(hs[e])) =>
            /\ result'[e] = "True"
            /\ e \in DOMAIN registry'
            /\ registry'[e] =
                [DOOR_STATION |-> ConfiguredDoorBird(device[e], CONF_NAME(e)),
                 DOOR_STATION_INFO |-> hs[e].info]]_vars

C1_Witness ==
    /\ op["e1"] = "setup" /\ pc["e1"] = "idle" /\ result["e1"] = "True"
    /\ "e1" \in DOMAIN registry
    /\ registry["e1"].DOOR_STATION_INFO = "infoB"
    /\ registry["e1"].DOOR_STATION.name = "Front door"

\* C2: when the handshake raised an HTTP error with status 401, the setup call
\* ends there by returning False (not by raising ConfigEntryNotReady), and the
\* registry has no record for the entry.
C2_UnauthorizedIsPermanent ==
    [][\A e \in Entries :
        (pc[e] = "classify" /\ pc'[e] # "classify" /\ HandshakeUnauthorized(hs[e])) =>
            /\ pc'[e] = "idle"
            /\ result'[e] = "False"
            /\ e \notin DOMAIN registry']_vars

C2_Witness ==
    \E e \in Entries :
        /\ op[e] = "setup" /\ pc[e] = "idle" /\ result[e] = "False"
        /\ state[e] = "setup_error"
        /\ e \notin DOMAIN registry

\* C3: when the handshake failed in any other way (OSError, an HTTP error with
\* another status, or a status that reports not ready), the setup call ends
\* there by raising ConfigEntryNotReady, which is not the permanent outcome
\* False, and the registry has no record for the entry.
C3_OtherFailuresAreRetryable ==
    [][\A e \in Entries :
        (pc[e] = "classify" /\ pc'[e] # "classify" /\ HandshakeOtherFailure(hs[e])) =>
            /\ pc'[e] = "idle"
            /\ result'[e] = "ConfigEntryNotReady"
            /\ result'[e] # "False"
            /\ e \notin DOMAIN registry']_vars

C3_Witness ==
    \E e \in Entries :
        /\ op[e] = "setup" /\ pc[e] = "idle" /\ result[e] = "ConfigEntryNotReady"
        /\ state[e] = "setup_retry"
        /\ e \notin DOMAIN registry

\* C4: an unload call for an entry that has no record in the registry is a
\* no-op: it does not raise and it leaves the registry as it is.
C4_UnloadWithoutRecordIsNoop ==
    \A e \in Entries : op[e] = "unload" => result[e] # "KeyError"

\* The step in which the loop runs a handed-off callback of device dev.
RunsCallbackOf(dev) ==
    /\ loopQueue # <<>>
    /\ loopQueue' = Tail(loopQueue)
    /\ Head(loopQueue).device = dev

\* C5: once an unload call has returned for an entry, no callback of that
\* entry's monitor fires any more, handed-off work included: no bus event is
\* published and no error is handled for it after that.
C5_NoCallbackAfterUnload ==
    \A t \in late :
        /\ t.seq \notin logged
        /\ \A i \in DOMAIN bus : bus[i].seq # t.seq

\* C6: after an unload that removed an entry's record, no callback of that
\* entry's monitor (on its thread, or handed off to the loop and run late)
\* changes the registry: the entry stays without a record.
C6_CallbacksLeaveRegistry ==
    [][\A dev \in removed :
        (RunsCallbackOf(dev) \/ Len(loopQueue') > Len(loopQueue)) =>
            /\ registry' = registry
            /\ (dev.entry \notin DOMAIN registry => dev.entry \notin DOMAIN registry')]_vars

C6_Witness ==
    \E t \in late :
        /\ t.kind = "error"
        /\ t.seq \in logged
        /\ t.device \in removed
        /\ t.device.entry \notin DOMAIN registry

\* C7: a record is removed from the registry only after the monitor of its
\* door station has been stopped: no device whose record has been removed has
\* a running monitor.
C7_StoppedBeforeRemoved == \A dev \in removed : dev \notin monitoring

C7_Witness ==
    \E dev \in removed :
        /\ dev.entry \notin DOMAIN registry
        /\ monitoring # {}

\* An entry is active when it was set up successfully and has not been
\* unloaded successfully since.
Active(e) == state[e] \in {"loaded", "failed_unload"}

\* C8: between the calls made for an entry, the registry has a record for it
\* exactly when the entry is active.
C8_OneRecordPerActiveEntry ==
    \A e \in Entries : pc[e] = "idle" => (e \in DOMAIN registry <=> Active(e))

C8_Witness ==
    /\ pc["e1"] = "idle" /\ Active("e1") /\ "e1" \in DOMAIN registry
    /\ pc["e2"] = "idle" /\ op["e2"] = "unload" /\ result["e2"] = "True"
    /\ "e2" \notin DOMAIN registry

\* The step in which the unload call of e returns.
UnloadReturns(e) == pc[e] = "unload_platforms" /\ pc'[e] = "idle"

\* C9: an unload call removes the entry's record exactly when it returns True,
\* the platforms' answer; when it returns False the entry's record is the one
\* the call found, and the records of the other entries are untouched either way.
C9_RemovesOnlyOnSuccess ==
    [][\A e \in Entries :
        UnloadReturns(e) =>
            /\ result'[e] \in {"True", "False"}
            /\ result'[e] = "True" => e \notin DOMAIN registry'
            /\ result'[e] = "False" =>
                /\ e \in DOMAIN registry'
                /\ registry'[e] = atCall[e]
            /\ \A x \in Entries \ {e} :
                /\ x \in DOMAIN registry' <=> x \in DOMAIN registry
                /\ x \in DOMAIN registry => registry'[x] = registry[x]]_vars

C9_Witness ==
    \E e \in Entries :
        /\ state[e] = "failed_unload"
        /\ op[e] = "unload" /\ pc[e] = "stop_monitoring"
        /\ e \in DOMAIN registry
        /\ atCall[e] = registry[e]

\* The entry of dev has been reloaded: the monitor of dev is stopped and setup
\* has run again, building a new client (or no further client can be built
\* within MaxDevices).
Reloaded(dev) ==
    /\ dev \notin monitoring
    /\ attempts[dev.entry] > dev.n \/ Built(Entries) >= MaxDevices

\* C10: whenever the error callback has been invoked for a door station, the
\* message is logged and the entry is eventually reloaded.
C10_ErrorLeadsToReload ==
    \A dev \in Devices :
        (\E i \in DOMAIN loopQueue :
            loopQueue[i].kind = "error" /\ loopQueue[i].device = dev)
        ~> (Reloaded(dev) /\ logged # {})

\* The step in which the loop runs the handed-off coroutine of an event callback.
RunsEvent == loopQueue # <<>> /\ loopQueue' = Tail(loopQueue) /\ Head(loopQueue).kind = "event"

UrlFields == {"live_video_url", "live_image_url", "rtsp_live_video_url", "html5_viewer_url"}

\* C11: for every event name E passed to the event callback, one bus event is
\* published, its type is DOMAIN, "_", E, and its data has the timestamp and
\* the four URLs of the door station's client.
C11_OneBusEventPerCallback ==
    [][RunsEvent =>
        LET t == Head(loopQueue) IN
        /\ Len(bus') = Len(bus) + 1
        /\ bus'[Len(bus')].event_type = DOORBIRD_DOMAIN \o <<"_">> \o t.arg
        /\ {"timestamp"} \cup UrlFields \subseteq DOMAIN bus'[Len(bus')].data.payload
        /\ \A f \in UrlFields :
            bus'[Len(bus')].data.payload[f] = DeviceUrl(t.device, f)]_vars

\* C15: when a handed-off event E is processed, the data published carries
\* the entity id the index maps E to at that moment, and None when E is
\* unmapped, whenever an event can be processed: also before the platforms
\* have created or filled the index.
C15_EntityIdOfIndex ==
    [][RunsEvent =>
        /\ Len(bus') = Len(bus) + 1
        /\ bus'[Len(bus')].data.entity_id =
            (IF Head(loopQueue).arg \in DOMAIN index
             THEN index[Head(loopQueue).arg] ELSE None)]_vars

\* C13: the callbacks, on the monitor's thread, only hand a coroutine to the
\* loop: they leave the registry, the index and the bus as they are, and every
\* change a callback causes to the bus, the log or the registry is made by a
\* handed-off coroutine that the loop runs while no other coroutine holds it.
C13_CallbacksOnlyHandOff ==
    [][/\ Len(loopQueue') > Len(loopQueue) =>
            /\ registry' = registry
            /\ index' = index /\ indexCreated' = indexCreated
            /\ bus' = bus /\ logged' = logged
       /\ (bus' # bus \/ logged' # logged \/ failed' # failed) =>
            /\ running = "none"
            /\ loopQueue # <<>>
            /\ loopQueue' = Tail(loopQueue)]_vars

C13_Witness ==
    /\ running # "none"
    /\ loopQueue # <<>>
    /\ bus = <<>> /\ logged = {}

\* The record of e in the registry is the one of its setup call's door station.
Registered(e) ==
    e \in DOMAIN registry /\ registry[e].DOOR_STATION.device = device[e]

\* C16 as stated: during a setup call the record is stored before monitoring
\* starts: whenever the call's monitor runs, its record is in the registry.
C16_RegisteredBeforeMonitoring ==
    \A e \in Entries :
        (op[e] = "setup" /\ pc[e] # "idle" /\ device[e] \in monitoring) => Registered(e)

\* C16 as amended: in a setup call monitoring starts first (line 121), then
\* the record is stored (line 123) with no await in between, and both are
\* done before the platform setup is delegated (line 128).
C16_MonitoringBeforeRegistered ==
    \A e \in Entries :
        op[e] = "setup" =>
            /\ pc[e] \in {"handshake", "classify", "start_monitoring"} =>
                device[e] \notin monitoring /\ ~Registered(e)
            /\ pc[e] = "register" =>
                device[e] \in monitoring /\ ~Registered(e) /\ running = e
            /\ pc[e] = "forward" =>
                device[e] \in monitoring /\ Registered(e)

C16_Witness ==
    \E e \in Entries :
        /\ op[e] = "setup" /\ pc[e] = "register"
        /\ device[e] \in monitoring
        /\ e \notin DOMAIN registry

QueuedDevices == {loopQueue[i].device : i \in DOMAIN loopQueue}

\* C17: the monitor of a setup call's client runs, or has handed anything to
\* the loop, only if the call's handshake succeeded: never while the handshake
\* is pending or being classified, and never after the call ended in False or
\* ConfigEntryNotReady.
C17_MonitorOnlyAfterHandshake ==
    \A e \in Entries :
        (op[e] = "setup" /\ device[e] \in monitoring \cup QueuedDevices) =>
            IF pc[e] = "idle"
            THEN result[e] = "True"
            ELSE HandshakeOk(hs[e]) /\ pc[e] \in {"register", "forward"}

C17_Witness ==
    \E e \in Entries :
        /\ op[e] = "setup" /\ pc[e] = "idle"
        /\ result[e] \in {"False", "ConfigEntryNotReady"}
        /\ attempts[e] > 0
        /\ device[e] \notin monitoring
        /\ monitoring # {}

\* C18: whenever the loop can run another task (no coroutine holds it), every
\* running monitor belongs to a door station whose record is in the registry;
\* between start_monitoring() and the store of the record the setup coroutine
\* holds the loop, so no handed-off callback runs in between.
C18_MonitorHasRecordAtYield ==
    /\ running = "none" =>
        \A dev \in monitoring :
            /\ dev.entry \in DOMAIN registry
            /\ registry[dev.entry].DOOR_STATION.device = dev
    /\ \A e \in Entries : pc[e] = "register" => running = e

C18_Witness ==
    \E e \in Entries :
        /\ pc[e] = "register" /\ running = e
        /\ device[e] \in monitoring
        /\ e \notin DOMAIN registry
        /\ \E i \in DOMAIN loopQueue : loopQueue[i].device = device[e]

\* An unload call stops the monitor before it delegates the platforms'
\* unload, whatever they answer: while the platforms unload and after the call
\* has returned the monitor of its door station does not run, and after a
\* return of False the record is still in the registry.
StoppedWhateverTheOutcome ==
    /\ \A dev \in returned : dev \notin monitoring
    /\ \A e \in Entries :
        op[e] = "unload" =>
            /\ pc[e] = "unload_platforms" =>
                atCall[e].DOOR_STATION.device \notin monitoring
            /\ (pc[e] = "idle" /\ result[e] = "False") =>
                /\ e \in DOMAIN registry
                /\ registry[e].DOOR_STATION.device \notin monitoring

\* An unload call has returned False for the door station dev: the call has
\* returned and the record of dev is still in the registry.
UnloadFailed(dev) ==
    /\ dev \in returned
    /\ dev.entry \in DOMAIN registry
    /\ registry[dev.entry].DOOR_STATION.device = dev

\* C19: async_unload_entry stops the monitor before it delegates the
\* platforms' unload, whatever the outcome, so after a failed unload the
\* record is still present, its monitor does not run, and no event of that
\* door station is forwarded to the bus after the call has returned.
C19_NoEventAfterFailedUnload ==
    /\ StoppedWhateverTheOutcome
    /\ \A t \in late : ~(t.kind = "event" /\ UnloadFailed(t.device))

\* The event name of a well-formed event type of this domain.
EventNameOf(event_type) ==
    CHOOSE ev \in EventNames : event_type = EventType(ev)

\* C12: for every event of this domain the describer returns the entity id
\* the index holds for the event's name, else the entity id of the event's
\* data, and it never raises, whatever the state of the index, also before
\* any platform has populated it.
C12_DescriberNeverRaises ==
    \A i \in DOMAIN described :
        LET call == described[i]
            ev == EventNameOf(call.event.event_type)
        IN /\ call.result.raised = "none"
           /\ call.result.entity_id =
                IF ev \in DOMAIN call.index
                THEN call.index[ev]
                ELSE call.event.data.entity_id

\* The bus events of one monitor: its device's URLs tell them apart.
SameMonitor(a, b) == a.data.payload = b.data.payload

\* C14: the bus events of one monitor are published in the order in which its
\* thread invoked handle_event for them (seq numbers the invocations).
C14_PublishedInCallbackOrder ==
    \A i, j \in DOMAIN bus :
        (SameMonitor(bus[i], bus[j]) /\ bus[i].seq < bus[j].seq) => i < j

C14_Witness ==
    /\ Len(bus) = 2
    /\ SameMonitor(bus[1], bus[2])
    /\ bus[1].seq < bus[2].seq
    /\ bus[1].event_type # bus[2].event_type

====
